---- MODULE Spec2Model ----
(***************************************************************************)
(* A model of the Yan85 emulator of shreyasminocha/gyan.                   *)
(*                                                                         *)
(* Two drafts of the engine live in the repository: the struct Emulator    *)
(* of src/src/emulator.rs (operation `step`) and the free function         *)
(* `emulate` of src/src/emu.rs (one iteration of its loop).  Both work on  *)
(* a register file of 7 bytes, a memory of 256 bytes and a stack of 256    *)
(* bytes.  A register is stored in the slot given by the number of         *)
(* trailing zero bits of the value the encoding constants bind it to       *)
(* (src/src/register.rs).                                                  *)
(*                                                                         *)
(* Arithmetic on u8 with `+=` / `-=` / `+` panics on overflow in a build   *)
(* with overflow checks and wraps in a build without them; every such      *)
(* place takes the flag `oc` and the actions choose it freely.             *)
(***************************************************************************)
EXTENDS Integers, Sequences, FiniteSets, TLC

VARIABLES
    constants,      \* Emulator.constants: the encoding constants
    draft,          \* which draft runs: "emulator" (emulator.rs) or "emu" (emu.rs)
    show_disassembly, \* the parameter show_disassembly of emulate of emu.rs
    instructions,   \* Emulator.instructions: the program
    registers,      \* Emulator.registers: slot -> byte
    stack,          \* Emulator.stack: index -> byte
    memory,         \* Emulator.memory: address -> byte
    result,         \* how the last step ended: "Ok", "Err", "Panic", "Exit"
    detail,         \* the error, the panic message or "" of the last step
    exit_code,      \* the code handed to process::exit, -1 before
    fetched,        \* the instruction the last step fetched, NoInstruction if none
    host,           \* the host: its open descriptors, the bytes of the last write,
                    \* the instruction the last step printed (NoInstruction if none)
    before,         \* history: registers, stack, memory and host when the last step began
    started         \* history: the registers the run started from

vars == <<constants, draft, show_disassembly, instructions, registers, stack,
          memory, result, detail, exit_code, fetched, host, before, started>>

----------------------------------------------------------------------------
(* Sizes and the byte type.                                                *)

ByteMod == 256
NumRegisters == 7
MemorySize == 256
StackSize == 256

Byte == 0 .. (ByteMod - 1)

RegisterNames == {"A", "B", "C", "D", "S", "I", "F"}
OperandNames == RegisterNames \cup {"None"}

NoInstruction == [op |-> "NONE", a |-> 0, b |-> 0]

----------------------------------------------------------------------------
(* Bit operations on bytes.                                                *)

RECURSIVE BitAnd(_, _)
BitAnd(x, y) ==
    IF x = 0 \/ y = 0 THEN 0
    ELSE (x % 2) * (y % 2) + 2 * BitAnd(x \div 2, y \div 2)

RECURSIVE BitOr(_, _)
BitOr(x, y) ==
    IF x = 0 THEN y
    ELSE IF y = 0 THEN x
    ELSE (IF x % 2 = 1 \/ y % 2 = 1 THEN 1 ELSE 0) + 2 * BitOr(x \div 2, y \div 2)

RECURSIVE trailing_zeros(_)
trailing_zeros(x) ==
    IF x = 0 THEN 8
    ELSE IF x % 2 = 1 THEN 0
    ELSE 1 + trailing_zeros(x \div 2)

wrapping_add(x, y) == (x + y) % ByteMod

wrapping_sub(x, y) == (x - y + ByteMod) % ByteMod

----------------------------------------------------------------------------
(* Registers.                                                              *)

\* The discriminant of a Register variant: the bound value, 0 for None.
Discriminant(c, r) == IF r = "None" THEN 0 ELSE c.register[r]

to_index(c, r) == trailing_zeros(Discriminant(c, r))

InRange(c, r) == to_index(c, r) \in 0 .. (NumRegisters - 1)

Reg(c, st, r) == st.registers[to_index(c, r)]

SetReg(c, st, r, v) == [st EXCEPT !.registers[to_index(c, r)] = v]

Panicked(st, msg) == [st EXCEPT !.result = "Panic", !.detail = msg]

Failed(st, err) == [st EXCEPT !.result = "Err", !.detail = err]

\* u8 addition as `+` / `+=` compiles it: a panic with overflow checks, a wrap without.
Overflows(x, y, oc) == oc /\ x + y >= ByteMod

Underflows(x, y, oc) == oc /\ x - y < 0

----------------------------------------------------------------------------
(* src/src/emulator.rs: the handlers of Emulator.  A handler takes the     *)
(* state record st (registers, stack, memory, host, result, detail,        *)
(* exit_code) with result "Ok" and returns the state it leaves.            *)

\* An IMM that clears the flags as well.
emulate_imm_clearing(c, st, register, value) ==
    IF ~InRange(c, register) THEN Panicked(st, "index out of bounds")
    ELSE SetReg(c, SetReg(c, st, "F", 0), register, value)

emulate_imm(c, st, register, value) ==
    IF ~InRange(c, register) THEN Panicked(st, "index out of bounds")
    ELSE SetReg(c, st, register, value)

\* An ADD that stops at 255.
emulate_add_saturating(c, st, a, b) ==
    IF ~InRange(c, a) \/ ~InRange(c, b) THEN Panicked(st, "index out of bounds")
    ELSE SetReg(c, st, a,
                IF Reg(c, st, a) + Reg(c, st, b) >= ByteMod THEN ByteMod - 1
                ELSE Reg(c, st, a) + Reg(c, st, b))

emulate_add(c, st, a, b) ==
    IF ~InRange(c, a) \/ ~InRange(c, b) THEN Panicked(st, "index out of bounds")
    ELSE SetReg(c, st, a, wrapping_add(Reg(c, st, a), Reg(c, st, b)))

\* A push that moves S before it stores.
stk_push_moving_first(c, st, push, oc) ==
    IF push = "None" THEN st
    ELSE IF ~InRange(c, push) \/ ~InRange(c, "S") THEN Panicked(st, "index out of bounds")
    ELSE LET s == Reg(c, st, "S")
         IN  IF Overflows(s, 1, oc) THEN Panicked(st, "attempt to add with overflow")
             ELSE SetReg(c, [st EXCEPT !.stack[wrapping_add(s, 1)] = Reg(c, st, push)],
                         "S", wrapping_add(s, 1))

\* if push != Register::None { stack[S] = registers[push]; S += 1 }
stk_push(c, st, push, oc) ==
    IF push = "None" THEN st
    ELSE IF ~InRange(c, push) \/ ~InRange(c, "S") THEN Panicked(st, "index out of bounds")
    ELSE LET s == Reg(c, st, "S")
             stored == [st EXCEPT !.stack[s] = Reg(c, st, push)]
         IN  IF Overflows(s, 1, oc) THEN Panicked(stored, "attempt to add with overflow")
             ELSE SetReg(c, stored, "S", wrapping_add(s, 1))

\* A pop that loads before it moves S.
stk_pop_loading_first(c, st, pop, oc) ==
    IF pop = "None" THEN st
    ELSE IF ~InRange(c, "S") \/ ~InRange(c, pop) THEN Panicked(st, "index out of bounds")
    ELSE LET s == Reg(c, st, "S")
             loaded == SetReg(c, st, pop, st.stack[s])
         IN  IF Underflows(Reg(c, loaded, "S"), 1, oc)
             THEN Panicked(loaded, "attempt to subtract with overflow")
             ELSE SetReg(c, loaded, "S", wrapping_sub(Reg(c, loaded, "S"), 1))

\* if pop != Register::None { S -= 1; registers[pop] = stack[S] }
stk_pop(c, st, pop, oc) ==
    IF pop = "None" THEN st
    ELSE IF ~InRange(c, "S") THEN Panicked(st, "index out of bounds")
    ELSE LET s == Reg(c, st, "S")
             moved == SetReg(c, st, "S", wrapping_sub(s, 1))
         IN  IF Underflows(s, 1, oc) THEN Panicked(st, "attempt to subtract with overflow")
             ELSE IF ~InRange(c, pop) THEN Panicked(moved, "index out of bounds")
             ELSE SetReg(c, moved, pop, moved.stack[Reg(c, moved, "S")])

emulate_stk(c, st, pop, push, oc) ==
    LET pushed == stk_push(c, st, push, oc)
    IN  IF pushed.result # "Ok" THEN pushed ELSE stk_pop(c, pushed, pop, oc)

\* An STM that takes its operands the other way round: *b = a.
emulate_stm_swapped(c, st, a, b) ==
    IF ~InRange(c, a) \/ ~InRange(c, b) THEN Panicked(st, "index out of bounds")
    ELSE [st EXCEPT !.memory[Reg(c, st, b)] = Reg(c, st, a)]

emulate_stm(c, st, a, b) ==
    IF ~InRange(c, a) \/ ~InRange(c, b) THEN Panicked(st, "index out of bounds")
    ELSE [st EXCEPT !.memory[Reg(c, st, a)] = Reg(c, st, b)]

emulate_ldm(c, st, a, b) ==
    IF ~InRange(c, a) \/ ~InRange(c, b) THEN Panicked(st, "index out of bounds")
    ELSE SetReg(c, st, a, st.memory[Reg(c, st, b)])

cmp_flags(c, a, b) ==
    LET f == c.flag
        ordering == IF a < b THEN BitOr(0, BitOr(f.L, f.N))
                    ELSE IF a > b THEN BitOr(0, BitOr(f.G, f.N))
                    ELSE BitOr(0, f.E)
    IN  IF a = 0 /\ b = 0 THEN BitOr(ordering, f.Z) ELSE ordering

\* A CMP that keeps the bits F already had.
emulate_cmp_keeping(c, st, a, b) ==
    IF ~InRange(c, a) \/ ~InRange(c, b) \/ ~InRange(c, "F")
    THEN Panicked(st, "index out of bounds")
    ELSE SetReg(c, st, "F",
                BitOr(Reg(c, st, "F"), cmp_flags(c, Reg(c, st, a), Reg(c, st, b))))

emulate_cmp(c, st, a, b) ==
    IF ~InRange(c, a) \/ ~InRange(c, b) \/ ~InRange(c, "F")
    THEN Panicked(st, "index out of bounds")
    ELSE SetReg(c, st, "F", cmp_flags(c, Reg(c, st, a), Reg(c, st, b)))

\* A JMP that jumps when F has every bit of the mask.
emulate_jmp_all(c, st, condition, register) ==
    IF ~InRange(c, "F") THEN Panicked(st, "index out of bounds")
    ELSE IF BitAnd(Reg(c, st, "F"), condition) = condition
    THEN IF ~InRange(c, register) \/ ~InRange(c, "I")
         THEN Panicked(st, "index out of bounds")
         ELSE SetReg(c, st, "I", Reg(c, st, register))
    ELSE st

emulate_jmp(c, st, condition, register) ==
    IF ~InRange(c, "F") THEN Panicked(st, "index out of bounds")
    ELSE IF BitAnd(Reg(c, st, "F"), condition) # 0
    THEN IF ~InRange(c, register) \/ ~InRange(c, "I")
         THEN Panicked(st, "index out of bounds")
         ELSE SetReg(c, st, "I", Reg(c, st, register))
    ELSE st

----------------------------------------------------------------------------
(* src/src/emulator.rs: the system calls.  The host's part of a call is    *)
(* the record h: h.fd is the descriptor File::open returns (-1: the open   *)
(* fails), h.n the number of bytes a read or write transfers (-1: it       *)
(* fails), h.byte the byte a read delivers.  A system call returns the     *)
(* state it leaves and the value of its Ok.                                *)

Returned(st, v) == [st |-> st, value |-> v]

\* The bytes of memory from index from up to, not including, the first zero byte.
RECURSIVE take_while_nonzero(_, _)
take_while_nonzero(mem, from) ==
    IF from >= MemorySize \/ mem[from] = 0 THEN <<>>
    ELSE <<mem[from]>> \o take_while_nonzero(mem, from + 1)

Continuation(b) == b \in 128 .. 191

\* str::from_utf8 on the bytes s succeeds.
RECURSIVE to_str_ok(_)
to_str_ok(s) ==
    IF s = <<>> THEN TRUE
    ELSE LET b == Head(s)
             n == Len(s)
         IN  IF b < 128 THEN to_str_ok(Tail(s))
             ELSE IF b \in 194 .. 223
             THEN n >= 2 /\ Continuation(s[2]) /\ to_str_ok(SubSeq(s, 3, n))
             ELSE IF b \in 224 .. 239
             THEN /\ n >= 3
                  /\ s[2] \in (IF b = 224 THEN 160 .. 191
                               ELSE IF b = 237 THEN 128 .. 159 ELSE 128 .. 191)
                  /\ Continuation(s[3])
                  /\ to_str_ok(SubSeq(s, 4, n))
             ELSE IF b \in 240 .. 244
             THEN /\ n >= 4
                  /\ s[2] \in (IF b = 240 THEN 144 .. 191
                               ELSE IF b = 244 THEN 128 .. 143 ELSE 128 .. 191)
                  /\ Continuation(s[3])
                  /\ Continuation(s[4])
                  /\ to_str_ok(SubSeq(s, 5, n))
             ELSE FALSE

\* Dropping a File made by File::from_raw_fd closes its descriptor.
Dropped(st, fd) == [st EXCEPT !.host.open = @ \ {fd}]

\* An OPEN that expects the host to grant it: File::open(..).expect(..).
syscall_open_expecting(st, path_address, h) ==
    LET path_bytes == take_while_nonzero(st.memory, path_address)
        opened == [st EXCEPT !.host.open = @ \cup {h.fd}]
    IN  IF ~to_str_ok(path_bytes) THEN Returned(Failed(st, "Utf8Error"), 0)
        ELSE IF path_bytes = <<>> \/ h.fd < 0 \/ h.fd \in st.host.open
        THEN Returned(Panicked(st, "failed to open"), 0)
        ELSE IF h.fd >= ByteMod THEN Returned(Failed(opened, "TryFromIntError"), 0)
        ELSE Returned(opened, h.fd)

syscall_open(st, path_address, h) ==
    LET path_bytes == take_while_nonzero(st.memory, path_address)
        opened == [st EXCEPT !.host.open = @ \cup {h.fd}]
    IN  IF ~to_str_ok(path_bytes) THEN Returned(Failed(st, "Utf8Error"), 0)
        ELSE IF path_bytes = <<>> \/ h.fd < 0 \/ h.fd \in st.host.open
        THEN Returned(Failed(st, "io::Error"), 0)
        ELSE IF h.fd >= ByteMod THEN Returned(Failed(opened, "TryFromIntError"), 0)
        ELSE Returned(opened, h.fd)

syscall_read_code(st, fd, start, num_bytes) ==
    Returned(Panicked(st, "not yet implemented"), 0)

syscall_read_memory(st, fd, start, num_bytes, h, oc) ==
    LET bytes_read == IF h.n < num_bytes THEN h.n ELSE num_bytes
        copied == [st EXCEPT !.memory =
                      [i \in DOMAIN @ |->
                          IF start <= i /\ i < start + bytes_read THEN h.byte ELSE @[i]]]
    IN  IF fd \notin st.host.open \/ h.n < 0
        THEN Returned(Dropped(Failed(st, "io::Error"), fd), 0)
        ELSE IF Overflows(start, bytes_read, oc)
        THEN Returned(Dropped(Panicked(st, "attempt to add with overflow"), fd), 0)
        ELSE IF start + bytes_read >= ByteMod
        THEN Returned(Dropped(Panicked(st, "slice index starts after its end"), fd), 0)
        ELSE Returned(Dropped(copied, fd), bytes_read)

syscall_write(st, fd, start, size, h, oc) ==
    LET data == [i \in 1 .. size |-> st.memory[start + i - 1]]
        bytes_written == IF h.n < size THEN h.n ELSE size
    IN  IF Overflows(start, size, oc)
        THEN Returned(Dropped(Panicked(st, "attempt to add with overflow"), fd), 0)
        ELSE IF start + size >= ByteMod
        THEN Returned(Dropped(Panicked(st, "slice index starts after its end"), fd), 0)
        ELSE IF fd \notin st.host.open \/ h.n < 0
        THEN Returned(Dropped(Failed(st, "io::Error"), fd), 0)
        ELSE Returned([st EXCEPT !.host.out = data], bytes_written)

syscall_sleep(st, duration) ==
    Returned(Panicked(st, "not yet implemented"), 0)

\* An EXIT that returns its code to the caller instead of ending the process.
syscall_exit_returning(st, code) == Returned(st, code)

syscall_exit(st, code) ==
    Returned([st EXCEPT !.result = "Exit", !.exit_code = code], 0)

emulate_sys(c, st, syscall, register, h, oc) ==
    IF ~InRange(c, "A") \/ ~InRange(c, "B") \/ ~InRange(c, "C")
    THEN Panicked(st, "index out of bounds")
    ELSE LET s == c.syscall
             a == Reg(c, st, "A")
             b == Reg(c, st, "B")
             cc == Reg(c, st, "C")
             return_value ==
                 IF syscall = s.OPEN THEN syscall_open(st, a, h)
                 ELSE IF syscall = s.READ_CODE THEN syscall_read_code(st, a, b, cc)
                 ELSE IF syscall = s.READ_MEMORY
                 THEN syscall_read_memory(st, a, b, cc, h, oc)
                 ELSE IF syscall = s.WRITE THEN syscall_write(st, a, b, cc, h, oc)
                 ELSE IF syscall = s.SLEEP THEN syscall_sleep(st, a)
                 ELSE IF syscall = s.EXIT THEN syscall_exit(st, a)
                 ELSE Returned(Panicked(st, "unsupported syscall"), 0)
         IN  IF return_value.st.result # "Ok" THEN return_value.st
             ELSE IF ~InRange(c, register)
             THEN Panicked(return_value.st, "index out of bounds")
             ELSE SetReg(c, return_value.st, register, return_value.value)

emulate_instruction(c, st, instruction, h, oc) ==
    LET a == instruction.a
        b == instruction.b
    IN  CASE instruction.op = "IMM" -> emulate_imm(c, st, a, b)
          [] instruction.op = "ADD" -> emulate_add(c, st, a, b)
          [] instruction.op = "STK" -> emulate_stk(c, st, a, b, oc)
          [] instruction.op = "STM" -> emulate_stm(c, st, a, b)
          [] instruction.op = "LDM" -> emulate_ldm(c, st, a, b)
          [] instruction.op = "CMP" -> emulate_cmp(c, st, a, b)
          [] instruction.op = "JMP" -> emulate_jmp(c, st, a, b)
          [] instruction.op = "SYS" -> emulate_sys(c, st, a, b, h, oc)

\* Emulator::step: fetch at I, advance I, dispatch.  The field fetched of the
\* state it returns is the instruction fetched, NoInstruction when none was.
step(c, program, st, h, oc) ==
    LET none == [st EXCEPT !.fetched = NoInstruction]
    IN  IF ~InRange(c, "I") THEN Panicked(none, "index out of bounds")
        ELSE LET i == Reg(c, st, "I")
             IN  IF i >= Len(program) THEN Panicked(none, "index out of bounds")
                 ELSE LET instruction == program[i + 1]
                          got == [st EXCEPT !.fetched = instruction]
                      IN  IF Overflows(i, 1, oc)
                          THEN Panicked(got, "attempt to add with overflow")
                          ELSE emulate_instruction(
                                   c, SetReg(c, got, "I", wrapping_add(i, 1)),
                                   instruction, h, oc)

----------------------------------------------------------------------------
(* src/src/emu.rs: one iteration of the loop of `emulate`, on the same     *)
(* state record.  Its STK names its first operand push and its second      *)
(* pop; its READ_MEMORY reads the standard input (descriptor 0) and its    *)
(* WRITE writes a window of the stack to the standard output.              *)

emulate_arm(c, st, instruction, h, oc) ==
    LET x == instruction.a
        y == instruction.b
        ix == to_index(c, x)
        iy == to_index(c, y)
        slots == DOMAIN st.registers
        S_ == to_index(c, "S")
        I_ == to_index(c, "I")
        F_ == to_index(c, "F")
        B_ == to_index(c, "B")
        C_ == to_index(c, "C")
        oob == Panicked(st, "index out of bounds")
    IN  CASE instruction.op = "IMM" ->
               IF ix \notin slots THEN oob ELSE [st EXCEPT !.registers[ix] = y]
          [] instruction.op = "ADD" ->
               IF ix \notin slots \/ iy \notin slots THEN oob
               ELSE [st EXCEPT !.registers[ix] =
                        (st.registers[ix] + st.registers[iy]) % ByteMod]
          [] instruction.op = "STK" ->
               LET push == x
                   pop == y
                   pushed ==
                       IF push = "None" THEN st
                       ELSE IF ix \notin slots \/ S_ \notin slots THEN oob
                       ELSE LET stored ==
                                    [st EXCEPT !.stack[st.registers[S_]] = st.registers[ix]]
                            IN  IF oc /\ st.registers[S_] = ByteMod - 1
                                THEN Panicked(stored, "attempt to add with overflow")
                                ELSE [stored EXCEPT !.registers[S_] = (@ + 1) % ByteMod]
               IN  IF pushed.result # "Ok" \/ pop = "None" THEN pushed
                   ELSE IF S_ \notin slots THEN oob
                   ELSE IF oc /\ pushed.registers[S_] = 0
                   THEN Panicked(pushed, "attempt to subtract with overflow")
                   ELSE LET moved == [pushed EXCEPT
                                         !.registers[S_] = (@ + ByteMod - 1) % ByteMod]
                        IN  IF iy \notin slots
                            THEN Panicked(moved, "index out of bounds")
                            ELSE [moved EXCEPT
                                     !.registers[iy] = moved.stack[moved.registers[S_]]]
          [] instruction.op = "STM" ->
               IF ix \notin slots \/ iy \notin slots THEN oob
               ELSE [st EXCEPT !.memory[st.registers[ix]] = st.registers[iy]]
          [] instruction.op = "LDM" ->
               IF ix \notin slots \/ iy \notin slots THEN oob
               ELSE [st EXCEPT !.registers[ix] = st.memory[st.registers[iy]]]
          [] instruction.op = "CMP" ->
               IF ix \notin slots \/ iy \notin slots \/ F_ \notin slots THEN oob
               ELSE LET a == st.registers[ix]
                        b == st.registers[iy]
                        f == c.flag
                        ordered == IF a < b THEN BitOr(f.L, f.N)
                                   ELSE IF a > b THEN BitOr(f.G, f.N)
                                   ELSE f.E
                        flags == IF a = 0 /\ b = 0 THEN BitOr(ordered, f.Z) ELSE ordered
                    IN  [st EXCEPT !.registers[F_] = flags]
          [] instruction.op = "JMP" ->
               IF F_ \notin slots THEN oob
               ELSE IF BitAnd(st.registers[F_], x) = 0 THEN st
               ELSE IF iy \notin slots \/ I_ \notin slots THEN oob
               ELSE [st EXCEPT !.registers[I_] = st.registers[iy]]
          [] instruction.op = "SYS" ->
               IF x = c.syscall.READ_MEMORY
               THEN IF C_ \notin slots THEN oob
                    ELSE LET count == st.registers[C_]
                             bytes_read == IF h.n < count THEN h.n ELSE count
                         IN  IF 0 \notin st.host.open \/ h.n < 0
                             THEN Panicked(st, "failed to read from stdin")
                             ELSE IF B_ \notin slots THEN oob
                             ELSE LET start == st.registers[B_]
                                      copied == [st EXCEPT !.memory =
                                          [i \in DOMAIN @ |->
                                              IF start <= i /\ i < start + bytes_read
                                              THEN h.byte ELSE @[i]]]
                                  IN  IF start + bytes_read > MemorySize
                                      THEN Panicked(st, "range end index out of range")
                                      ELSE IF iy \notin slots
                                      THEN Panicked(copied, "index out of bounds")
                                      ELSE [copied EXCEPT !.registers[iy] = bytes_read]
               ELSE IF x = c.syscall.WRITE
               THEN IF B_ \notin slots \/ C_ \notin slots THEN oob
                    ELSE LET b == st.registers[B_]
                             size == st.registers[C_]
                             data == [i \in 1 .. size |-> st.stack[b - 1 + i - 1]]
                             bytes_written == IF h.n < size THEN h.n ELSE size
                         IN  IF b = 0
                             THEN Panicked(st, IF oc THEN "attempt to subtract with overflow"
                                                ELSE "slice index starts after its end")
                             ELSE IF b + size - 1 > StackSize
                             THEN Panicked(st, "range end index out of range")
                             ELSE IF 1 \notin st.host.open \/ h.n < 0
                             THEN Panicked(st, "failed to write to stdout")
                             ELSE IF iy \notin slots
                             THEN Panicked([st EXCEPT !.host.out = data],
                                           "index out of bounds")
                             ELSE [st EXCEPT !.host.out = data,
                                             !.registers[iy] = bytes_written]
               ELSE IF x = c.syscall.EXIT
               THEN [st EXCEPT !.result = "Exit", !.exit_code = Discriminant(c, y)]
               ELSE Panicked(st, "not yet implemented")

\* An emulate whose observer, when it is on, steps over the next instruction.
emulate_skipping(c, program, show, st, h, oc) ==
    LET none == [st EXCEPT !.fetched = NoInstruction, !.host.shown = NoInstruction]
        I_ == to_index(c, "I")
    IN  IF I_ \notin DOMAIN st.registers THEN Panicked(none, "index out of bounds")
        ELSE IF st.registers[I_] >= Len(program)
        THEN Panicked(none, "index out of bounds")
        ELSE LET instruction == program[st.registers[I_] + 1]
                 got == [none EXCEPT !.fetched = instruction]
                 advanced == [got EXCEPT !.registers[I_] = (@ + 1) % ByteMod]
                 shown == IF show
                          THEN [advanced EXCEPT !.host.shown = instruction,
                                                !.registers[I_] = (@ + 1) % ByteMod]
                          ELSE advanced
             IN  IF oc /\ st.registers[I_] = ByteMod - 1
                 THEN Panicked(got, "attempt to add with overflow")
                 ELSE emulate_arm(c, shown, instruction, h, oc)

\* let instruction = &instructions[registers[I]]; registers[I] += 1;
\* if show_disassembly { println!("{instruction}") }; match ...
\* The line printed goes to the observer: host.shown.
emulate(c, program, show, st, h, oc) ==
    LET none == [st EXCEPT !.fetched = NoInstruction, !.host.shown = NoInstruction]
        I_ == to_index(c, "I")
    IN  IF I_ \notin DOMAIN st.registers THEN Panicked(none, "index out of bounds")
        ELSE IF st.registers[I_] >= Len(program)
        THEN Panicked(none, "index out of bounds")
        ELSE LET instruction == program[st.registers[I_] + 1]
                 got == [none EXCEPT !.fetched = instruction]
                 advanced == [got EXCEPT !.registers[I_] = (@ + 1) % ByteMod]
                 shown == IF show THEN [advanced EXCEPT !.host.shown = instruction]
                          ELSE advanced
             IN  IF oc /\ st.registers[I_] = ByteMod - 1
                 THEN Panicked(got, "attempt to add with overflow")
                 ELSE emulate_arm(c, shown, instruction, h, oc)

----------------------------------------------------------------------------
(* The inputs: encoding constants, programs, a run's state, the host.      *)

\* Two encodings: each binds the seven registers to distinct single bits, the
\* five flags to distinct bits and the six system calls to distinct codes.
ConstantsSet ==
    { [register |-> [A |-> 32, B |-> 2, C |-> 16, D |-> 1, S |-> 8, I |-> 4, F |-> 64],
       flag     |-> [L |-> 2, G |-> 16, E |-> 4, N |-> 8, Z |-> 1],
       syscall  |-> [OPEN |-> 1, READ_CODE |-> 2, READ_MEMORY |-> 4,
                     WRITE |-> 8, SLEEP |-> 16, EXIT |-> 32]],
      [register |-> [A |-> 1, B |-> 2, C |-> 4, D |-> 8, S |-> 16, I |-> 32, F |-> 64],
       flag     |-> [L |-> 16, G |-> 1, E |-> 8, N |-> 2, Z |-> 4],
       syscall  |-> [OPEN |-> 16, READ_CODE |-> 4, READ_MEMORY |-> 32,
                     WRITE |-> 2, SLEEP |-> 1, EXIT |-> 8]] }

\* An encoding that binds A to a value that is no single bit; its slot is that
\* of D.  Emulator::new and emulate take whatever Constants they are handed.
MalformedConstants ==
    { [register |-> [A |-> 3, B |-> 2, C |-> 16, D |-> 1, S |-> 8, I |-> 4, F |-> 64],
       flag     |-> [L |-> 2, G |-> 16, E |-> 4, N |-> 8, Z |-> 1],
       syscall  |-> [OPEN |-> 1, READ_CODE |-> 2, READ_MEMORY |-> 4,
                     WRITE |-> 8, SLEEP |-> 16, EXIT |-> 32]] }

\* How far the sampled bytes reach from both ends of the byte range.
MaxLow == 1

Vals == {v \in Byte : v <= MaxLow \/ v >= ByteMod - MaxLow}

Instr(op, a, b) == [op |-> op, a |-> a, b |-> b]

\* Condition masks of JMP: none, every flag, one bit, another bit.
Masks == {0, ByteMod - 1, 2, 16}

\* Codes of SYS: the six codes of the encodings and one that is none of them.
SyscallCodes == {1, 2, 4, 8, 16, 32, 128}

\* The registers sampled as second operand.
SecondNames == {"A", "B", "S", "I", "F"}

InstrSet ==
    {Instr("IMM", r, v) : r \in OperandNames, v \in Vals \cup {42}}
    \cup {Instr(op, a, b) : op \in {"ADD", "STM", "LDM", "CMP"},
                            a \in RegisterNames, b \in SecondNames}
    \cup {Instr("ADD", "None", "A"), Instr("CMP", "A", "None")}
    \cup {Instr("STK", a, b) : a \in OperandNames, b \in SecondNames \cup {"None"}}
    \cup {Instr("JMP", m, r) : m \in Masks, r \in SecondNames \cup {"None"}}
    \cup {Instr("SYS", k, r) : k \in SyscallCodes, r \in {"A", "D", "None"}}

\* The instructions of the longer programs.
CoreSet ==
    { Instr("IMM", "A", 42), Instr("ADD", "A", "B"),
      Instr("STK", "None", "A"), Instr("STK", "B", "None"),
      Instr("STM", "A", "B"), Instr("LDM", "D", "A"),
      Instr("CMP", "A", "B"), Instr("SYS", 32, "D"), Instr("SYS", 8, "D") }

\* A store followed by a load through the same address register.
RoundTrips ==
    {<<Instr("STM", x, y), Instr("LDM", z, x)>> :
        x \in {"A", "D"}, y \in {"A", "B", "C"}, z \in {"B", "D"}}

\* An OPEN into A, then a READ_MEMORY and a READ_MEMORY or a WRITE on the
\* descriptor in A, in either encoding.
DescriptorRuns ==
    UNION { {<<Instr("SYS", c.syscall.OPEN, "A"),
               Instr("SYS", c.syscall.READ_MEMORY, "D"),
               Instr("SYS", k, "D")>> : k \in {c.syscall.READ_MEMORY, c.syscall.WRITE}}
            : c \in ConstantsSet }

\* A program as long as I can count: it goes from index 0 to its last index,
\* where a non-jumping instruction stands.
LongProgram ==
    [k \in 1 .. ByteMod |->
        IF k = 1 THEN Instr("IMM", "I", ByteMod - 1)
        ELSE IF k = ByteMod THEN Instr("IMM", "D", 1)
        ELSE Instr("IMM", "A", 42)]

\* The STK that pops into pop and pushes push, as the draft d writes it:
\* emulator.rs takes (pop, push), emu.rs (push, pop).
Stk(d, pop, push) ==
    IF d = "emulator" THEN Instr("STK", pop, push) ELSE Instr("STK", push, pop)

\* Pushes alone of the registers srcs, then as many pops alone into dsts.
StackRun(d, srcs, dsts) ==
    [k \in 1 .. (Len(srcs) + Len(dsts)) |->
        IF k <= Len(srcs) THEN Stk(d, "None", srcs[k])
        ELSE Stk(d, dsts[k - Len(srcs)], "None")]

\* Two pushes and two pops, and three of each with S among the values pushed,
\* as either draft writes them.
StackRuns(d) ==
    { StackRun(d, <<"A", "B">>, <<"D", "C">>),
      StackRun(d, <<"A", "S", "B">>, <<"D", "C", "B">>) }

\* The programs: every one-instruction vector over InstrSet, as in the unit
\* tests, every two-instruction vector over CoreSet, the round trips, the
\* runs on a descriptor, the long program and the runs on the stack.
Programs ==
    {<<i>> : i \in InstrSet} \cup {<<i, j>> : i \in CoreSet, j \in CoreSet}
    \cup RoundTrips \cup DescriptorRuns \cup {LongProgram}
    \cup StackRuns("emulator") \cup StackRuns("emu")

\* The values of B sampled: the two lowest bytes and the highest.
SecondValues == {0, 1, ByteMod - 1}

\* The stack pointers sampled: the bottom, one above it, the top.
StackPointers == {0, 1, ByteMod - 1}

\* The stack pointers a program starts from: those sampled and, for a run on
\* the stack, the highest that leaves room for its pushes.
StackPointersOf(program) ==
    StackPointers
    \cup (IF program \in StackRuns("emulator") \cup StackRuns("emu")
          THEN {ByteMod - 1 - Len(program) \div 2} ELSE {})

\* The register files a step starts from: A, B, S sampled, C = 42, D = 0x20 and
\* F empty or full; I is 0.
RegisterFile(c, a, b, s, f) ==
    [k \in 0 .. (NumRegisters - 1) |->
        IF k = to_index(c, "A") THEN a
        ELSE IF k = to_index(c, "B") THEN b
        ELSE IF k = to_index(c, "C") THEN 42
        ELSE IF k = to_index(c, "D") THEN 32
        ELSE IF k = to_index(c, "S") THEN s
        ELSE IF k = to_index(c, "F") THEN f
        ELSE 0]

\* A memory holding the paths "abc", "bc", "c" and "" over and over.
InitMemory == [i \in 0 .. (MemorySize - 1) |-> IF i % 4 = 3 THEN 0 ELSE 97 + (i % 4)]

\* A stack whose slots all differ from their neighbours.
InitStack == [i \in 0 .. (StackSize - 1) |-> (3 * i + 5) % ByteMod]

\* The descriptors a process starts with: standard input, output and error.
StdDescriptors == {0, 1, 2}

\* The host's answers to a system call.
HostResponses ==
    {[fd |-> d, n |-> n, byte |-> 7] : d \in {-1, 3, 300}, n \in {-1, 0, 1, 2}}

NoResponse == [fd |-> -1, n |-> -1, byte |-> 0]

\* The host is asked only by a SYS instruction.
HostChoices(c, program, regs) ==
    LET i == regs[to_index(c, "I")]
    IN  IF i < Len(program) /\ program[i + 1].op = "SYS" THEN HostResponses
        ELSE {NoResponse}

----------------------------------------------------------------------------
(* The state machine.                                                      *)

State ==
    [registers |-> registers, stack |-> stack, memory |-> memory, host |-> host,
     result |-> "Ok", detail |-> "", exit_code |-> exit_code, fetched |-> fetched]

Snapshot ==
    [registers |-> registers, stack |-> stack, memory |-> memory, host |-> host]

Becomes(st) ==
    /\ registers' = st.registers
    /\ stack' = st.stack
    /\ memory' = st.memory
    /\ host' = st.host
    /\ result' = st.result
    /\ detail' = st.detail
    /\ exit_code' = st.exit_code
    /\ fetched' = st.fetched
    /\ before' = Snapshot
    /\ UNCHANGED <<constants, draft, show_disassembly, instructions, started>>

\* Emulator::new and the setup of emulate, handed an encoding of cs, and the
\* registers poked as the unit tests poke them.
InitFrom(cs) ==
    /\ constants \in cs
    /\ draft \in {"emulator", "emu"}
    /\ show_disassembly \in (IF draft = "emu" THEN BOOLEAN ELSE {FALSE})
    /\ instructions \in Programs
    /\ \E a \in Vals, b \in SecondValues, s \in StackPointersOf(instructions), f \in {0, ByteMod - 1} :
           registers = RegisterFile(constants, a, b, s, f)
    /\ stack = InitStack
    /\ memory = InitMemory
    /\ host = [open |-> StdDescriptors, out |-> <<>>, shown |-> NoInstruction]
    /\ result = "Ok"
    /\ detail = ""
    /\ exit_code = -1
    /\ fetched = NoInstruction
    /\ before = Snapshot
    /\ started = registers

Init == InitFrom(ConstantsSet)

InitMalformed == InitFrom(MalformedConstants)

\* Emulator::step of emulator.rs.  After an Err the caller may step again; a
\* panic and process::exit end the run.
Step ==
    /\ draft = "emulator"
    /\ result \in {"Ok", "Err"}
    /\ \E h \in HostChoices(constants, instructions, registers), oc \in BOOLEAN :
           Becomes(step(constants, instructions, State, h, oc))

\* One iteration of the loop of emulate of emu.rs.
Emulate ==
    /\ draft = "emu"
    /\ result = "Ok"
    /\ \E h \in HostChoices(constants, instructions, registers), oc \in BOOLEAN :
           Becomes(emulate(constants, instructions, show_disassembly, State, h, oc))

Next == Step \/ Emulate

Spec == Init /\ [][Next]_vars

\* The runs of an engine constructed with a malformed encoding.
SpecMalformed == InitMalformed /\ [][Next]_vars

----------------------------------------------------------------------------
(* What the claims speak of.                                               *)

Slot(r) == to_index(constants, r)

RegNow(r) == registers[Slot(r)]

RegWas(r) == before.registers[Slot(r)]

\* The value an instruction reads from r: I has been advanced by then.
AtExec(r) == IF r = "I" THEN (RegWas("I") + 1) % ByteMod ELSE RegWas(r)

\* The step panicked while advancing I, before it dispatched.
AdvanceOverflowed ==
    /\ result = "Panic"
    /\ detail = "attempt to add with overflow"
    /\ RegWas("I") = ByteMod - 1

\* The last step fetched an instruction of opcode op and dispatched it.
Dispatched(op) == fetched.op = op /\ ~AdvanceOverflowed

OtherRegistersKept(rs) ==
    \A r \in RegisterNames \ rs : RegNow(r) = RegWas(r)

FlagNames == {"L", "G", "E", "Z", "N"}

\* The flags the comparison of a with b is to set.
ExpectedFlags(a, b) ==
    (IF a < b THEN {"L", "N"} ELSE IF a > b THEN {"G", "N"} ELSE {"E"})
    \cup (IF a = 0 /\ b = 0 THEN {"Z"} ELSE {})

Bits == {1, 2, 4, 8, 16, 32, 64, 128}

\* C1: a step executing CMP(ra, rb) leaves F with exactly the bits of L and N
\* if a < b, of G and N if a > b, of E if a = b, and of Z as well iff a = 0 and
\* b = 0, a and b being the values of ra and rb when the instruction executes;
\* no other bit of F is set, whatever F held before.
C1_CmpRecomputesF ==
    (Dispatched("CMP") /\ fetched.a \in RegisterNames /\ fetched.b \in RegisterNames)
    => /\ result = "Ok"
       /\ \A bit \in Bits :
              (BitAnd(RegNow("F"), bit) # 0)
              <=> (\E x \in ExpectedFlags(AtExec(fetched.a), AtExec(fetched.b)) :
                       constants.flag[x] = bit)

\* C1: a CMP of a smaller with a larger value has run from a full F.
C1_Witness ==
    /\ fetched = Instr("CMP", "A", "B")
    /\ result = "Ok"
    /\ RegWas("F") = ByteMod - 1
    /\ RegWas("A") < RegWas("B")
    /\ RegNow("F") = constants.flag.L + constants.flag.N

\* C2: a step executing JMP(mask, target) from index i leaves I at the value of
\* target if F and mask share a bit and at i + 1 otherwise; no other register
\* and no memory or stack cell changes.
C2_JmpIffMasked ==
    /\ (Dispatched("JMP") /\ fetched.b \in RegisterNames) => result = "Ok"
    /\ (Dispatched("JMP") /\ result = "Ok")
    => /\ RegNow("I") = (IF BitAnd(RegWas("F"), fetched.a) # 0
                         THEN AtExec(fetched.b)
                         ELSE (RegWas("I") + 1) % ByteMod)
       /\ (fetched.a = 0 => RegNow("I") = (RegWas("I") + 1) % ByteMod)
       /\ OtherRegistersKept({"I"})
       /\ memory = before.memory
       /\ stack = before.stack

\* C2: a JMP has been taken to an index other than the next one.
C2_Witness ==
    /\ fetched.op = "JMP"
    /\ result = "Ok"
    /\ BitAnd(RegWas("F"), fetched.a) # 0
    /\ fetched.a # ByteMod - 1
    /\ RegNow("I") = RegWas(fetched.b)
    /\ RegNow("I") # RegWas("I") + 1

\* C3 (as claimed): a step executing STK(pop_dst, push_src) with both operands
\* real registers pushes before it pops: pop_dst ends with the value of
\* push_src, the slot at the old S holds it, push_src and S are as before; the
\* first operand is the pop destination.  Stated for pop_dst other than S and I
\* and push_src other than I, of which the step itself changes nothing else.
C3_PushBeforePop ==
    ( /\ Dispatched("STK")
      /\ result = "Ok"
      /\ fetched.a \in RegisterNames \ {"S", "I"}
      /\ fetched.b \in RegisterNames \ {"I"} )
    => /\ RegNow(fetched.a) = RegWas(fetched.b)
       /\ stack[RegWas("S")] = RegWas(fetched.b)
       /\ (fetched.b # fetched.a => RegNow(fetched.b) = RegWas(fetched.b))
       /\ RegNow("S") = RegWas("S")

\* In emulator.rs a pop alone, STK(dst, None) with S above 0, moves S down by
\* one, then loads dst from the slot at the new S, and changes no slot.
PopAlone ==
    ( /\ draft = "emulator"
      /\ Dispatched("STK")
      /\ fetched.a \in RegisterNames
      /\ fetched.b = "None"
      /\ RegWas("S") > 0 )
    => /\ result = "Ok"
       /\ RegNow(fetched.a) = before.stack[RegWas("S") - 1]
       /\ (fetched.a # "S" => RegNow("S") = RegWas("S") - 1)
       /\ stack = before.stack
       /\ OtherRegistersKept({"S", "I", fetched.a})

\* In emulator.rs a push alone with S below 255 has been dispatched.
PushAloneDispatched ==
    /\ draft = "emulator"
    /\ Dispatched("STK")
    /\ fetched.a = "None"
    /\ fetched.b \in RegisterNames
    /\ RegWas("S") < ByteMod - 1

\* C4 (as claimed): in emulator.rs, STK(None, src) stores the value of src in
\* the slot at the old S, then moves S up by one, and changes neither src nor
\* any other slot; STK(dst, None) moves S down by one, then loads dst from the
\* slot at the new S, and changes no slot.
C4_AsClaimed ==
    /\ PushAloneDispatched
       => /\ result = "Ok"
          /\ stack = [before.stack EXCEPT ![RegWas("S")] = AtExec(fetched.b)]
          /\ RegNow("S") = RegWas("S") + 1
          /\ RegNow(fetched.b) = AtExec(fetched.b)
    /\ PopAlone

\* C4 (amended): in emulator.rs, STK(None, src) stores the value of src in the
\* slot at the old S, then moves S up by one, and changes neither src (when
\* src is not S) nor any other slot; STK(dst, None) moves S down by one, then
\* loads dst from the slot at the new S, and changes no slot.
C4_PushAlonePopAlone ==
    /\ PushAloneDispatched
       => /\ result = "Ok"
          /\ stack = [before.stack EXCEPT ![RegWas("S")] = AtExec(fetched.b)]
          /\ RegNow("S") = RegWas("S") + 1
          /\ (fetched.b # "S" => RegNow(fetched.b) = AtExec(fetched.b))
          /\ OtherRegistersKept({"S", "I"})
    /\ PopAlone

\* C4: a push alone has stored a register other than S at the old S.
C4_Witness ==
    /\ draft = "emulator"
    /\ fetched = Instr("STK", "None", "A")
    /\ result = "Ok"
    /\ RegWas("S") = 1
    /\ RegNow("S") = 2
    /\ stack[1] = RegWas("A")
    /\ stack[1] # before.stack[1]

\* The operand a draft pushes, and the one it pops into.
PushOperand == IF draft = "emulator" THEN fetched.b ELSE fetched.a

PopOperand == IF draft = "emulator" THEN fetched.a ELSE fetched.b

\* C5 (as claimed): a push at S = 255 fails with StackOverflow and a pop at
\* S = 0 fails with StackUnderflow, returned as errors; S never wraps.
C5_StackFailures ==
    /\ (Dispatched("STK") /\ PushOperand \in RegisterNames /\ RegWas("S") = ByteMod - 1)
       => (result = "Err" /\ detail = "StackOverflow")
    /\ ( /\ Dispatched("STK")
         /\ PushOperand = "None"
         /\ PopOperand \in RegisterNames
         /\ RegWas("S") = 0 )
       => (result = "Err" /\ detail = "StackUnderflow")

\* C6 (as claimed): a step executing ADD(ra, rb) leaves ra at (a + b) mod 256,
\* does not fail, and changes neither rb (when it is not ra) nor F.
C6_AddAsClaimed ==
    (Dispatched("ADD") /\ fetched.a \in RegisterNames /\ fetched.b \in RegisterNames)
    => /\ result = "Ok"
       /\ RegNow(fetched.a) = (AtExec(fetched.a) + AtExec(fetched.b)) % ByteMod
       /\ (fetched.b # fetched.a => RegNow(fetched.b) = AtExec(fetched.b))
       /\ RegNow("F") = RegWas("F")

\* C6 (amended): a step executing ADD(ra, rb) leaves ra at (a + b) mod 256,
\* does not fail, and changes neither rb (when it is not ra) nor F (when it is
\* not ra).
C6_AddWraps ==
    (Dispatched("ADD") /\ fetched.a \in RegisterNames /\ fetched.b \in RegisterNames)
    => /\ result = "Ok"
       /\ RegNow(fetched.a) = (AtExec(fetched.a) + AtExec(fetched.b)) % ByteMod
       /\ (fetched.b # fetched.a => RegNow(fetched.b) = AtExec(fetched.b))
       /\ (fetched.a # "F" => RegNow("F") = RegWas("F"))

\* C6: an ADD has wrapped around.
C6_Witness ==
    /\ fetched = Instr("ADD", "A", "B")
    /\ result = "Ok"
    /\ RegWas("A") + RegWas("B") >= ByteMod
    /\ RegNow("A") = RegWas("A") + RegWas("B") - ByteMod
    /\ RegNow("B") = RegWas("B")

\* The program is a store and then a load through the same register, and the
\* load has just run after the store.
RoundTripDone ==
    /\ Len(instructions) = 2
    /\ instructions[1].op = "STM"
    /\ instructions[2].op = "LDM"
    /\ instructions[2].b = instructions[1].a
    /\ fetched = instructions[2]
    /\ RegWas("I") = 1
    /\ result = "Ok"

\* C7: STM(ra, rv) sets the cell at the value of ra to the value of rv and no
\* other cell; LDM(rd, ra) sets rd to the cell at the value of ra and changes
\* no cell; an LDM(rd, ra) right after an STM(ra, rv) leaves rd at the value
\* rv had; neither fails, whatever byte the address register holds.
C7_StoreLoadRoundTrip ==
    /\ (Dispatched("STM") /\ fetched.a \in RegisterNames /\ fetched.b \in RegisterNames)
       => /\ result = "Ok"
          /\ memory = [before.memory EXCEPT ![AtExec(fetched.a)] = AtExec(fetched.b)]
    /\ (Dispatched("LDM") /\ fetched.a \in RegisterNames /\ fetched.b \in RegisterNames)
       => /\ result = "Ok"
          /\ RegNow(fetched.a) = before.memory[AtExec(fetched.b)]
          /\ memory = before.memory
    /\ RoundTripDone
       => /\ RegNow(instructions[2].a) = RegWas(instructions[1].b)
          /\ memory[RegWas(instructions[1].a)] = RegWas(instructions[1].b)

\* C7: a value has gone to the last address and come back into another register.
C7_Witness ==
    /\ RoundTripDone
    /\ instructions = <<Instr("STM", "A", "B"), Instr("LDM", "D", "A")>>
    /\ RegWas("A") = ByteMod - 1
    /\ RegWas("B") = 1
    /\ RegNow("D") = 1
    /\ InitMemory[ByteMod - 1] # 1

\* C8 (as claimed): a step executing IMM(dst, v) sets dst to v and leaves every
\* other register, every memory cell and every stack cell as before the step.
C8_ImmAsClaimed ==
    (Dispatched("IMM") /\ fetched.a \in RegisterNames)
    => /\ result = "Ok"
       /\ RegNow(fetched.a) = fetched.b
       /\ OtherRegistersKept({fetched.a})
       /\ memory = before.memory
       /\ stack = before.stack

\* C8 (amended): a step executing IMM(dst, v) sets dst to v, advances I by one
\* (when dst is not I) and leaves every other register, every memory cell and
\* every stack cell as before the step.
C8_ImmFrame ==
    (Dispatched("IMM") /\ fetched.a \in RegisterNames)
    => /\ result = "Ok"
       /\ RegNow(fetched.a) = fetched.b
       /\ (fetched.a # "I" => RegNow("I") = (RegWas("I") + 1) % ByteMod)
       /\ OtherRegistersKept({fetched.a, "I"})
       /\ memory = before.memory
       /\ stack = before.stack

\* C8: IMM(A, 42) has run on a register file whose A was not 42.
C8_Witness ==
    /\ fetched = Instr("IMM", "A", 42)
    /\ result = "Ok"
    /\ RegWas("A") # 42
    /\ RegNow("A") = 42
    /\ RegWas("F") = ByteMod - 1

\* C9 (as claimed): a step taken while I is at or past the end of the program
\* returns the error ProgramCounterOutOfRange.
C9_FetchPastEnd ==
    (fetched = NoInstruction /\ RegWas("I") >= Len(instructions))
    => (result = "Err" /\ detail = "ProgramCounterOutOfRange")

IsExit(instruction) ==
    instruction.op = "SYS" /\ instruction.a = constants.syscall.EXIT

SyscallNames == {"OPEN", "READ_CODE", "READ_MEMORY", "WRITE", "SLEEP", "EXIT"}

\* The last step fetched a SYS with the code of the system call name and
\* dispatched it.
IsSys(name) == Dispatched("SYS") /\ fetched.a = constants.syscall[name]

\* The cells of memory the last step changed.
CellsWritten == {i \in DOMAIN memory : memory[i] # before.memory[i]}

\* C11 (as claimed): the arguments of SYS(code, result_reg) are the values of
\* A, B and C when the instruction executes, whatever result_reg is: the exit
\* code of EXIT is the value of A; a READ_MEMORY or WRITE that succeeds was on
\* the descriptor in A, open at that time; READ_MEMORY writes from the cell at
\* B at most C cells on; WRITE hands over C bytes.
C11_SysArguments ==
    /\ IsSys("EXIT") => (result = "Exit" /\ exit_code = RegWas("A"))
    /\ (IsSys("READ_MEMORY") /\ result = "Ok")
       => /\ RegWas("A") \in before.host.open
          /\ \A i \in CellsWritten : RegWas("B") <= i /\ i < RegWas("B") + RegWas("C")
    /\ (IsSys("WRITE") /\ result = "Ok")
       => /\ RegWas("A") \in before.host.open
          /\ Len(host.out) = RegWas("C")

\* C12 (as claimed): a descriptor OPEN returned stays open for the rest of the
\* run: no step but an EXIT closes a descriptor, and a READ_MEMORY or WRITE on
\* a descriptor the program opened leaves it open.
C12_DescriptorStaysOpen ==
    /\ result # "Exit" => before.host.open \subseteq host.open
    /\ ( /\ IsSys("READ_MEMORY") \/ IsSys("WRITE")
         /\ RegWas("A") \in before.host.open \ StdDescriptors )
       => RegWas("A") \in host.open

\* C13 (as claimed): READ_MEMORY with start + count > 256 fails with
\* OutOfBounds, whatever the host returns, and leaves memory and the result
\* register as they were; with start + count <= 256 it writes only cells in
\* [start, start + n) for the n <= count it returns.
C13_ReadMemoryBounds ==
    /\ (IsSys("READ_MEMORY") /\ RegWas("B") + RegWas("C") > MemorySize)
       => /\ result = "Err"
          /\ detail = "OutOfBounds"
          /\ memory = before.memory
          /\ OtherRegistersKept({"I"})
    /\ (IsSys("READ_MEMORY") /\ RegWas("B") + RegWas("C") <= MemorySize)
       => /\ \A i \in CellsWritten :
                 RegWas("B") <= i /\ i < RegWas("B") + RegWas("C")
          /\ (result = "Ok" /\ fetched.b \in RegisterNames \ {"I"})
             => /\ RegNow(fetched.b) <= RegWas("C")
                /\ \A i \in CellsWritten : i < RegWas("B") + RegNow(fetched.b)

\* C14 (as claimed): a WRITE that succeeds has handed the host the bytes
\* memory[start .. start + size), start the value of B and size of C, has put
\* the number of bytes written in the result register and has changed neither
\* memory nor stack.
C14_WriteFromMemory ==
    (IsSys("WRITE") /\ result = "Ok" /\ RegWas("B") + RegWas("C") <= MemorySize)
    => /\ host.out = [i \in 1 .. RegWas("C") |-> before.memory[RegWas("B") + i - 1]]
       /\ (fetched.b \in RegisterNames \ {"I"} => RegNow(fetched.b) <= RegWas("C"))
       /\ memory = before.memory
       /\ stack = before.stack

\* C15 (as claimed): a SYS whose code is none of the six system calls returns
\* the error UnsupportedSyscall from the step and writes no register but I, no
\* memory and no stack cell.
C15_UnsupportedFails ==
    ( /\ Dispatched("SYS")
      /\ \A name \in SyscallNames : fetched.a # constants.syscall[name] )
    => /\ result = "Err"
       /\ detail = "UnsupportedSyscall"
       /\ OtherRegistersKept({"I"})
       /\ memory = before.memory
       /\ stack = before.stack

\* C16 (as claimed): a step that fetches at I = 255 in a program of length 256
\* does not fail on the advance and sets I to 0 before it dispatches, so that
\* an instruction there that writes no I leaves I at 0.
C16_AdvanceWraps ==
    ( /\ Len(instructions) = ByteMod
      /\ fetched # NoInstruction
      /\ RegWas("I") = ByteMod - 1 )
    => /\ ~AdvanceOverflowed
       /\ (fetched = Instr("IMM", "D", 1) => (result = "Ok" /\ RegNow("I") = 0))

\* In emulator.rs an OPEN has been dispatched on a path that is valid UTF-8.
OpenDispatched ==
    /\ draft = "emulator"
    /\ IsSys("OPEN")
    /\ to_str_ok(take_while_nonzero(before.memory, RegWas("A")))

\* C17: in emulator.rs an OPEN the host does not grant returns the host's I/O
\* error from the step, and one the host grants with a descriptor above 255
\* returns the conversion error; neither panics, and both leave every register
\* but I, the memory and the stack as they were; an OPEN that succeeds leaves
\* the descriptor the host gave, untruncated, in the result register.
C17_OpenFailures ==
    /\ (OpenDispatched /\ host.open = before.host.open)
       => /\ result = "Err"
          /\ detail = "io::Error"
          /\ OtherRegistersKept({"I"})
          /\ memory = before.memory
          /\ stack = before.stack
    /\ (OpenDispatched /\ \E d \in host.open \ before.host.open : d >= ByteMod)
       => /\ result = "Err"
          /\ detail = "TryFromIntError"
          /\ OtherRegistersKept({"I"})
          /\ memory = before.memory
          /\ stack = before.stack
    /\ (OpenDispatched /\ result = "Ok" /\ fetched.b # "I")
       => host.open \ before.host.open = {RegNow(fetched.b)}

\* C17: an OPEN of a path that is not empty has been refused by the host.
C17_Witness ==
    /\ OpenDispatched
    /\ before.memory[RegWas("A")] # 0
    /\ result = "Err"
    /\ detail = "io::Error"
    /\ RegNow("I") = RegWas("I") + 1

\* The seven registers are bound to pairwise distinct single bits.
WellFormed(c) ==
    /\ \A r \in RegisterNames : c.register[r] \in Bits
    /\ \A r, q \in RegisterNames : r # q => c.register[r] # c.register[q]

\* C18 (as claimed): no step is ever executed in a state whose Constants bind
\* two registers to the same bit or a register to a value that is no power of
\* two: such Constants are rejected when the engine is constructed.
C18_MalformedRejected ==
    (fetched # NoInstruction \/ result # "Ok") => WellFormed(constants)

\* What a step leaves of the engine: its registers, stack and memory, how it
\* ended, and the files it holds.
Engine(st) ==
    [registers |-> st.registers, stack |-> st.stack, memory |-> st.memory,
     result |-> st.result, detail |-> st.detail, exit_code |-> st.exit_code,
     open |-> st.host.open, out |-> st.host.out]

\* The state of the run without observer that goes along with the state st of
\* the run with it: the same but for what the observer was shown.
Unobserved(st) == [st EXCEPT !.host.shown = NoInstruction]

NoneUsed ==
    \/ Dispatched("IMM") /\ fetched.a = "None"
    \/ /\ \E op \in {"ADD", "STM", "LDM", "CMP"} : Dispatched(op)
       /\ (fetched.a = "None" \/ fetched.b = "None")

\* C20 (as claimed): the slot of a register is the number of trailing zero
\* bits of its bound value; the slots of the seven registers are pairwise
\* different and lie in 0..6, so that an IMM into one register changes no
\* other but I; None has no slot in 0..6; an instruction that reads or writes
\* None where it needs a register returns the error InvalidOperand and
\* changes no register but I.
C20_SlotsAndNone ==
    /\ \A r \in RegisterNames :
           /\ Slot(r) = trailing_zeros(constants.register[r])
           /\ Slot(r) \in 0 .. (NumRegisters - 1)
           /\ \A q \in RegisterNames \ {r} : Slot(q) # Slot(r)
    /\ Slot("None") \notin 0 .. (NumRegisters - 1)
    /\ (Dispatched("IMM") /\ fetched.a \in RegisterNames)
       => OtherRegistersKept({fetched.a, "I"})
    /\ NoneUsed
       => /\ result = "Err"
          /\ detail = "InvalidOperand"
          /\ OtherRegistersKept({"I"})

\* The program is a run on the stack as the running draft writes it, and the
\* run has not stepped past its end.
InStackRun ==
    /\ instructions \in StackRuns(draft)
    /\ ~(fetched = NoInstruction /\ result = "Panic")

\* The number of pushes of a run on the stack, and the S it started from.
Pushes == Len(instructions) \div 2

StartS == started[Slot("S")]

\* The register the j-th push pushes and the one the j-th pop pops into.
PushedRegister(j) ==
    IF draft = "emulator" THEN instructions[j].b ELSE instructions[j].a

PoppedRegister(j) ==
    IF draft = "emulator" THEN instructions[Pushes + j].a ELSE instructions[Pushes + j].b

\* The value the j-th push pushes: S has moved up by j - 1 by then, the other
\* registers are as the run started.
PushedValue(j) ==
    IF PushedRegister(j) = "S" THEN StartS + j - 1
    ELSE started[Slot(PushedRegister(j))]

\* C21: in a run of n pushes alone and then n pops alone, into registers
\* other than S and I, from a stack pointer s with s + n <= 255, no step
\* fails; after k <= n steps S is s + k and the slots from s on hold the first
\* k values pushed; the j-th pop leaves the value of push n + 1 - j in its
\* register and after all of them S is s again; the slots below s are never
\* changed.
C21_StackIsLifo ==
    (InStackRun /\ StartS + Pushes <= ByteMod - 1)
    => LET k == RegNow("I")
       IN  /\ result = "Ok"
           /\ \A i \in 0 .. (StartS - 1) : stack[i] = InitStack[i]
           /\ RegNow("S") = StartS + (IF k <= Pushes THEN k ELSE 2 * Pushes - k)
           /\ \A j \in 1 .. Pushes :
                  /\ j <= k => stack[StartS + j - 1] = PushedValue(j)
                  /\ Pushes + j <= k
                     => RegNow(PoppedRegister(j)) = PushedValue(Pushes + 1 - j)

\* C21: three values, all different, have been pushed above slot 0 and popped
\* in reverse.
C21_Witness ==
    /\ InStackRun
    /\ Pushes = 3
    /\ RegNow("I") = 6
    /\ result = "Ok"
    /\ StartS = 1
    /\ RegNow("S") = 1
    /\ started[Slot("A")] # started[Slot("B")]
    /\ RegNow("B") = started[Slot("A")]
    /\ RegNow("D") = started[Slot("B")]
    /\ RegNow("C") = 2

\* C21: a run has pushed up to the last slot and popped back.
C21_ToTheTop ==
    /\ InStackRun
    /\ RegNow("I") = 2 * Pushes
    /\ result = "Ok"
    /\ StartS + Pushes = ByteMod - 1
    /\ RegNow("S") = StartS

\* The program has no SYS, the run goes on and an instruction is next.
NextIsPlain ==
    /\ \A k \in 1 .. Len(instructions) : instructions[k].op # "SYS"
    /\ result = "Ok"
    /\ RegNow("I") < Len(instructions)

\* C22 (as claimed): on a program without SYS, from every state, one call of
\* Emulator::step of emulator.rs and one iteration of the loop of emulate of
\* emu.rs leave the same registers, memory and stack.
C22_DraftsAgree ==
    NextIsPlain
    => \A oc \in BOOLEAN :
           LET one == step(constants, instructions, State, NoResponse, oc)
               other == emulate(constants, instructions, FALSE, State, NoResponse, oc)
           IN  /\ one.registers = other.registers
               /\ one.memory = other.memory
               /\ one.stack = other.stack

====
